---- MODULE Spec2Model ----
(***************************************************************************)
(* Model of crates/bevy_reflect/derive/src/enum_utility.rs: the           *)
(* VariantBuilder trait (shared traversal `build` and its default hooks)   *)
(* and its three implementers FromReflectVariantBuilder (Reconstruction),  *)
(* TryApplyVariantBuilder (Merge-Apply) and ReflectCloneVariantBuilder     *)
(* (Structural-Clone).                                                     *)
(*                                                                         *)
(* A TokenStream is the sequence of its tokens (strings), a delimited     *)
(* group being written with its delimiters.  A `quote!` is the             *)
(* concatenation of its literal tokens and its interpolations.  An Option  *)
(* is a sequence of length at most one: << >> is None, <<x>> is Some(x).   *)
(***************************************************************************)
EXTENDS Integers, Sequences, FiniteSets, TLC

VARIABLES reflect_enum, strategy, this, pc, vi, fi, field_patterns, field_constructors, variant_names, variant_patterns, variant_constructors

vars == <<reflect_enum, strategy, this, pc, vi, fi, field_patterns, field_constructors, variant_names, variant_patterns, variant_constructors>>

(***************************************************************************)
(* Bounds of the descriptors explored.                                     *)
(***************************************************************************)
MaxVariants == 2

MaxFields == 2

(***************************************************************************)
(* Input domains.                                                          *)
(***************************************************************************)
FromReflect == "FromReflectVariantBuilder"

TryApply == "TryApplyVariantBuilder"

ReflectClone == "ReflectCloneVariantBuilder"

Strategies == {FromReflect, TryApply, ReflectClone}

DefaultBehaviors == {"Func", "Default", "Required"}

CloneBehaviors == {"Default", "Trait", "Func"}

VariantIdents == <<"Va", "Vb", "Vc", "Vd">>

FieldIdents == <<"fa", "fb", "fc", "fd">>

FieldTypes == <<"Ta", "Tb", "Tc", "Td">>

ThisIdents == {"__this"}

DefaultFnPath == "default_fn"

CloneFnPath == "clone_fn"

RemoteWrapperTy == "Wrapper"

(***************************************************************************)
(* Token streams.                                                          *)
(***************************************************************************)
\* A string interpolated by quote! is a string literal token.
StrLit(s) == "\"" \o s \o "\""

\* A usize interpolated by quote! is a suffixed integer literal token.
UsizeLit(n) == ToString(n) \o "usize"

(***************************************************************************)
(* The external collaborators.  A path is one token.                       *)
(***************************************************************************)
FQClone == "::core::clone::Clone"

FQDefault == "::core::default::Default"

FQOption == "::core::option::Option"

FQResult == "::core::result::Result"

bevy_reflect_path == "bevy_reflect"

\* ident_or_index: Member::Named(ident), or Member::Unnamed(index) printed unsuffixed.
ident_or_index(ident, index) == IF ident # <<>> THEN ident[1] ELSE ToString(index)

\* StructField::reflected_type
reflected_type(field) == field.ty

\* ReflectEnum::get_unit
get_unit(variant_ident) == <<"Self", "::", variant_ident>>

\* StructField::field_id
field_id(field) == 
    IF field.ident # <<>>
    THEN <<bevy_reflect_path, "::", "FieldId", "::", "Named", "(", StrLit(field.ident[1]), ")">>
    ELSE <<bevy_reflect_path, "::", "FieldId", "::", "Unnamed", "(", UsizeLit(field.declaration_index), ")">>

(***************************************************************************)
(* Lines 156-163: the member, the alias and the transient view of a field. *)
(***************************************************************************)
\* The alias without the member.
format_alias_fixed(member) == "_field"

\* format_ident!("_{}", member)
format_alias(member) == "_" \o member

VariantField(variant_name, field) == [alias |-> format_alias(ident_or_index(field.ident, field.declaration_index)), variant_name |-> variant_name, field |-> field]

(***************************************************************************)
(* The hooks.  `s` is the implementer the method is dispatched on.         *)
(***************************************************************************)
\* The lookup falling back to the declaration index of a field without identity.
default_access_field_fallback(this_, f) == 
    IF f.field.ident # <<>>
    THEN <<this_, ".", "field", "(", StrLit(f.field.ident[1]), ")">>
    ELSE IF f.field.reflection_index # <<>>
         THEN <<this_, ".", "field_at", "(", UsizeLit(f.field.reflection_index[1]), ")">>
         ELSE <<this_, ".", "field_at", "(", UsizeLit(f.field.declaration_index), ")">>

\* Lines 50-61.
default_access_field(this_, f) == 
    IF f.field.ident # <<>>
    THEN <<this_, ".", "field", "(", StrLit(f.field.ident[1]), ")">>
    ELSE IF f.field.reflection_index # <<>>
         THEN <<this_, ".", "field_at", "(", UsizeLit(f.field.reflection_index[1]), ")">>
         ELSE <<"::core::compile_error", "!", "(", StrLit("internal bevy_reflect error: field should be active"), ")">>

\* Lines 307-310.
clone_access_field(this_, f) == <<FQOption, "::", "Some", "(", f.alias, ")">>

access_field(s, this_, f) == IF s = ReflectClone THEN clone_access_field(this_, f) ELSE default_access_field(this_, f)

\* Lines 219-222.
from_reflect_unwrap_field(f) == <<f.alias, "?">>

\* The field identifier taken from the reflection index.
try_apply_field_name_by_reflection(f) == 
    IF f.field.ident # <<>> THEN f.field.ident[1]
    ELSE "." \o ToString(IF f.field.reflection_index # <<>> THEN f.field.reflection_index[1] ELSE f.field.declaration_index)

\* Lines 261-264.
try_apply_field_name(f) == IF f.field.ident # <<>> THEN f.field.ident[1] ELSE "." \o ToString(f.field.declaration_index)

\* Lines 251-272.
try_apply_unwrap_field(f) == 
    <<f.alias, ".", "ok_or", "(", bevy_reflect_path, "::", "ApplyError", "::", "MissingEnumField", "{",
      "variant_name", ":", "::core::convert::Into::into", "(", StrLit(f.variant_name), ")", ",",
      "field_name", ":", "::core::convert::Into::into", "(", StrLit(try_apply_field_name(f)), ")",
      "}", ")", "?">>

\* Lines 312-315.
clone_unwrap_field(f) == <<f.alias, ".", "unwrap", "(", ")">>

unwrap_field(s, f) == 
    CASE s = FromReflect -> from_reflect_unwrap_field(f)
      [] s = TryApply -> try_apply_unwrap_field(f)
      [] s = ReflectClone -> clone_unwrap_field(f)

\* Lines 224-232.
from_reflect_construct_field(f) == 
    <<"<", reflected_type(f.field), "as", bevy_reflect_path, "::", "FromReflect", ">", "::", "from_reflect", "(", f.alias, ")", "?">>

\* MismatchedTypes reporting the field's static type as from_type.
try_apply_construct_field_static(f) == 
    <<"<", reflected_type(f.field), "as", bevy_reflect_path, "::", "FromReflect", ">", "::", "from_reflect", "(", f.alias, ")",
      ".", "ok_or", "(", bevy_reflect_path, "::", "ApplyError", "::", "MismatchedTypes", "{",
      "from_type", ":", "::core::convert::Into::into", "(", "<", reflected_type(f.field), "as", bevy_reflect_path, "::", "TypePath", ">", "::", "type_path", "(", ")", ")", ",",
      "to_type", ":", "::core::convert::Into::into", "(", "<", reflected_type(f.field), "as", bevy_reflect_path, "::", "TypePath", ">", "::", "type_path", "(", ")", ")",
      "}", ")", "?">>

\* Lines 274-288.
try_apply_construct_field(f) == 
    <<"<", reflected_type(f.field), "as", bevy_reflect_path, "::", "FromReflect", ">", "::", "from_reflect", "(", f.alias, ")",
      ".", "ok_or", "(", bevy_reflect_path, "::", "ApplyError", "::", "MismatchedTypes", "{",
      "from_type", ":", "::core::convert::Into::into", "(", bevy_reflect_path, "::", "DynamicTypePath", "::", "reflect_type_path", "(", f.alias, ")", ")", ",",
      "to_type", ":", "::core::convert::Into::into", "(", "<", reflected_type(f.field), "as", bevy_reflect_path, "::", "TypePath", ">", "::", "type_path", "(", ")", ")",
      "}", ")", "?">>

\* The alias used directly, remote or not.
clone_input_direct(f) == <<f.alias>>

\* Lines 320-328: the alias, seen through the remote wrapper when there is one.
clone_input(f) == 
    IF f.field.remote # <<>>
    THEN <<"<", f.field.remote[1], "as", bevy_reflect_path, "::", "ReflectRemote", ">", "::", "as_wrapper", "(", f.alias, ")">>
    ELSE <<f.alias>>

\* Lines 317-347.
clone_construct_field(f) == 
    CASE f.field.clone = "Default" -> 
           <<"<", reflected_type(f.field), "as", bevy_reflect_path, "::", "PartialReflect", ">", "::", "reflect_clone_and_take", "(">>
           \o clone_input(f) \o <<")", "?">>
      [] f.field.clone = "Trait" -> <<FQClone, "::", "clone", "(">> \o clone_input(f) \o <<")">>
      [] f.field.clone = "Func" -> <<CloneFnPath, "(">> \o clone_input(f) \o <<")">>

construct_field(s, f) == 
    CASE s = FromReflect -> from_reflect_construct_field(f)
      [] s = TryApply -> try_apply_construct_field(f)
      [] s = ReflectClone -> clone_construct_field(f)

\* The required-no-default arm without its unwrap_field step.
construction_without_unwrap(s, this_, f) == 
    CASE f.field.default = "Func" -> 
           <<"if", "let", FQOption, "::", "Some", "(", f.alias, ")", "=">> \o access_field(s, this_, f)
           \o <<"{">> \o construct_field(s, f) \o <<"}">>
           \o <<"else", "{", DefaultFnPath, "(", ")", "}">>
      [] f.field.default = "Default" -> 
           <<"if", "let", FQOption, "::", "Some", "(", f.alias, ")", "=">> \o access_field(s, this_, f)
           \o <<"{">> \o construct_field(s, f) \o <<"}">>
           \o <<"else", "{", FQDefault, "::", "default", "(", ")", "}">>
      [] f.field.default = "Required" -> 
           <<"{", "let", f.alias, "=">> \o access_field(s, this_, f) \o <<";">>
           \o construct_field(s, f) \o <<"}">>

\* Lines 90-115.
construction(s, this_, f) == 
    CASE f.field.default = "Func" -> 
           <<"if", "let", FQOption, "::", "Some", "(", f.alias, ")", "=">> \o access_field(s, this_, f)
           \o <<"{">> \o construct_field(s, f) \o <<"}">>
           \o <<"else", "{", DefaultFnPath, "(", ")", "}">>
      [] f.field.default = "Default" -> 
           <<"if", "let", FQOption, "::", "Some", "(", f.alias, ")", "=">> \o access_field(s, this_, f)
           \o <<"{">> \o construct_field(s, f) \o <<"}">>
           \o <<"else", "{", FQDefault, "::", "default", "(", ")", "}">>
      [] f.field.default = "Required" -> 
           <<"{", "let", f.alias, "=">> \o access_field(s, this_, f) \o <<";">>
           \o <<"let", f.alias, "=">> \o unwrap_field(s, f) \o <<";">>
           \o construct_field(s, f) \o <<"}">>

\* The active-field result never converted into the remote representation.
default_on_active_field_unconverted(s, this_, f) == construction(s, this_, f)

\* Lines 82-124 (the construction of lines 90-115 is `construction`).
default_on_active_field(s, this_, f) == 
    IF f.field.remote # <<>>
    THEN <<"<", reflected_type(f.field), "as", bevy_reflect_path, "::", "ReflectRemote", ">", "::", "into_remote", "(">>
         \o construction(s, this_, f) \o <<")">>
    ELSE construction(s, this_, f)

\* The override missing: the trait's default on_active_field.
clone_on_active_field_inherited(this_, f) == default_on_active_field(ReflectClone, this_, f)

\* Lines 349-351.
clone_on_active_field(this_, f) == construct_field(ReflectClone, f)

on_active_field(s, this_, f) == IF s = ReflectClone THEN clone_on_active_field(this_, f) ELSE default_on_active_field(s, this_, f)

\* Lines 130-135.
default_on_ignored_field(f) == 
    IF f.field.default = "Func"
    THEN <<DefaultFnPath, "(", ")">>
    ELSE <<FQDefault, "::", "default", "(", ")">>

\* An ignored deep-reflect-clone field silently defaulted.
clone_on_ignored_field_defaulting(f) == 
    CASE f.field.clone = "Default" -> default_on_ignored_field(f)
      [] f.field.clone = "Trait" -> <<FQClone, "::", "clone", "(", f.alias, ")">>
      [] f.field.clone = "Func" -> <<CloneFnPath, "(", ")">>

\* Lines 353-375.
clone_on_ignored_field(f) == 
    CASE f.field.clone = "Default" -> 
           <<"return", FQResult, "::", "Err", "(", bevy_reflect_path, "::", "ReflectCloneError", "::", "FieldNotCloneable", "{", "field", ":">>
           \o field_id(f.field)
           \o <<",", "variant", ":", FQOption, "::", "Some", "(", bevy_reflect_path, "::", "__macro_exports::alloc_utils::Cow::Borrowed", "(", StrLit(f.variant_name), ")", ")", ",",
                "container_type_path", ":", bevy_reflect_path, "::", "__macro_exports::alloc_utils::Cow::Borrowed", "(", "<", "Self", "as", bevy_reflect_path, "::", "TypePath", ">", "::", "type_path", "(", ")", ")",
                "}", ")">>
      [] f.field.clone = "Trait" -> <<FQClone, "::", "clone", "(", f.alias, ")">>
      [] f.field.clone = "Func" -> <<CloneFnPath, "(", ")">>

on_ignored_field(s, f) == IF s = ReflectClone THEN clone_on_ignored_field(f) ELSE default_on_ignored_field(f)

(***************************************************************************)
(* The descriptors explored: up to MaxVariants variants of up to MaxFields *)
(* fields.  A variant is a struct variant (named fields), a tuple variant  *)
(* (unnamed fields) or a unit variant (no field); struct and tuple         *)
(* variants alternate, starting with either.  A field is ignored, active   *)
(* with the reflection index the derive assigns (the number of active      *)
(* fields declared before it), or active without one.  The status of the   *)
(* k-th field and the default, clone and remote attributes are drawn once  *)
(* per enum and shared by its variants.                                    *)
(***************************************************************************)
FieldStatuses == {"ignored", "active", "unindexed"}

FieldPolicies == [default : DefaultBehaviors, clone : CloneBehaviors, remote : {<<>>, <<RemoteWrapperTy>>}]

EnumShapes == [first_named : BOOLEAN, lens : UNION {[1..n -> 0..MaxFields] : n \in 0..MaxVariants}, status : [1..MaxFields -> FieldStatuses]]

IsNamed(shape, i) == (i % 2 = 1) = shape.first_named

ActiveBefore(status, k) == Cardinality({j \in 1..(k - 1) : status[j] # "ignored"})

MkField(shape, i, k, policy) == [ident |-> IF IsNamed(shape, i) THEN <<FieldIdents[k]>> ELSE <<>>, declaration_index |-> k - 1, reflection_index |-> IF shape.status[k] = "active" THEN <<ActiveBefore(shape.status, k)>> ELSE <<>>, ignore |-> shape.status[k] = "ignored", default |-> policy.default, clone |-> policy.clone, remote |-> policy.remote, ty |-> FieldTypes[k]]

MkVariant(shape, i, policy) == [ident |-> VariantIdents[i], fields |-> [k \in 1..shape.lens[i] |-> MkField(shape, i, k, policy)]]

MkEnum(shape, policy) == [i \in 1..Len(shape.lens) |-> MkVariant(shape, i, policy)]

Descriptors == {MkEnum(shape, policy) : shape \in EnumShapes, policy \in FieldPolicies}

(***************************************************************************)
(* VariantBuilder::build, lines 138-200.  `vi` and `fi` are the positions  *)
(* of the two loops.                                                       *)
(***************************************************************************)
variants == reflect_enum

CurVariant == variants[vi]

CurField == CurVariant.fields[fi]

CurVariantField == VariantField(CurVariant.ident, CurField)

InFieldLoop == pc = "build" /\ vi <= Len(variants) /\ fi <= Len(CurVariant.fields)

\* Lines 171-173.
field_pattern(member, alias) == <<member, ":", alias>>

\* Lines 175-177.
field_constructor(member, value) == <<member, ":">> \o value

\* #( #items ),*
RECURSIVE Separated(_)
Separated(items) == 
    IF items = <<>> THEN <<>>
    ELSE IF Len(items) = 1 THEN items[1]
    ELSE items[1] \o <<",">> \o Separated(Tail(items))

\* Lines 180-188.
variant_body(variant_path, items) == variant_path \o <<"{">> \o Separated(items) \o <<"}">>

Init == 
    /\ reflect_enum \in Descriptors
    /\ strategy \in Strategies
    /\ this \in ThisIdents
    /\ pc = "build"
    /\ vi = 1
    /\ fi = 1
    /\ field_patterns = <<>>
    /\ field_constructors = <<>>
    /\ variant_names = <<>>
    /\ variant_patterns = <<>>
    /\ variant_constructors = <<>>

\* Lines 156-157 and 171-177.
PushField(value) == 
    LET member == ident_or_index(CurField.ident, CurField.declaration_index)
    IN  /\ field_patterns' = Append(field_patterns, field_pattern(member, CurVariantField.alias))
        /\ field_constructors' = Append(field_constructors, field_constructor(member, value))
        /\ fi' = fi + 1
        /\ UNCHANGED <<reflect_enum, strategy, this, pc, vi, variant_names, variant_patterns, variant_constructors>>

\* Lines 155-178, the ignored arm.
IgnoredFieldStep == 
    /\ InFieldLoop
    /\ CurField.ignore
    /\ PushField(on_ignored_field(strategy, CurVariantField))

\* Lines 155-178, the active arm.
ActiveFieldStep == 
    /\ InFieldLoop
    /\ ~CurField.ignore
    /\ PushField(on_active_field(strategy, this, CurVariantField))

\* The outputs of a variant put in front of those of the variants before it.
PushVariant_prepend == 
    /\ pc = "build"
    /\ vi <= Len(variants)
    /\ fi > Len(CurVariant.fields)
    /\ variant_names' = <<CurVariant.ident>> \o variant_names
    /\ variant_patterns' = <<variant_body(get_unit(CurVariant.ident), field_patterns)>> \o variant_patterns
    /\ variant_constructors' = <<variant_body(get_unit(CurVariant.ident), field_constructors)>> \o variant_constructors
    /\ vi' = vi + 1
    /\ fi' = 1
    /\ field_patterns' = <<>>
    /\ field_constructors' = <<>>
    /\ UNCHANGED <<reflect_enum, strategy, this, pc>>

\* Lines 145-153 and 180-192.
PushVariant == 
    /\ pc = "build"
    /\ vi <= Len(variants)
    /\ fi > Len(CurVariant.fields)
    /\ variant_names' = Append(variant_names, CurVariant.ident)
    /\ variant_patterns' = Append(variant_patterns, variant_body(get_unit(CurVariant.ident), field_patterns))
    /\ variant_constructors' = Append(variant_constructors, variant_body(get_unit(CurVariant.ident), field_constructors))
    /\ vi' = vi + 1
    /\ fi' = 1
    /\ field_patterns' = <<>>
    /\ field_constructors' = <<>>
    /\ UNCHANGED <<reflect_enum, strategy, this, pc>>

\* Lines 195-199.
Return == 
    /\ pc = "build"
    /\ vi > Len(variants)
    /\ pc' = "done"
    /\ UNCHANGED <<reflect_enum, strategy, this, vi, fi, field_patterns, field_constructors, variant_names, variant_patterns, variant_constructors>>

Next == IgnoredFieldStep \/ ActiveFieldStep \/ PushVariant \/ Return

Spec == Init /\ [][Next]_vars

(***************************************************************************)
(* Reading the output back: the slots of a variant's pattern and           *)
(* constructor are the items of its brace group, separated by the commas   *)
(* that lie in no nested group.                                            *)
(***************************************************************************)
Opens == {"(", "{", "["}

Closes == {")", "}", "]"}

HasToken(toks, t) == \E p \in 1..Len(toks) : toks[p] = t

Contains(toks, sub) == \E p \in 1..(Len(toks) - Len(sub) + 1) : toks[p] = sub[1] /\ SubSeq(toks, p, p + Len(sub) - 1) = sub

Occurrences(toks, t) == Cardinality({p \in 1..Len(toks) : toks[p] = t})

FirstBrace(toks) == CHOOSE p \in 1..Len(toks) : toks[p] = "{" /\ \A q \in 1..(p - 1) : toks[q] # "{"

PathOf(toks) == SubSeq(toks, 1, FirstBrace(toks) - 1)

GroupOf(toks) == SubSeq(toks, FirstBrace(toks) + 1, Len(toks) - 1)

TopCommas(g) == 
    LET opens == {q \in 1..Len(g) : g[q] \in Opens}
        closes == {q \in 1..Len(g) : g[q] \in Closes}
    IN  {p \in 1..Len(g) : g[p] = "," /\ Cardinality({q \in opens : q < p}) = Cardinality({q \in closes : q < p})}

Slots(toks) == 
    LET g == GroupOf(toks)
        commas == TopCommas(g)
        n == Cardinality(commas)
        Nth(k) == CHOOSE p \in commas : Cardinality({q \in commas : q < p}) = k - 1
    IN  IF g = <<>> THEN <<>>
        ELSE [k \in 1..(n + 1) |-> SubSeq(g, IF k = 1 THEN 1 ELSE Nth(k - 1) + 1, IF k = n + 1 THEN Len(g) ELSE Nth(k) - 1)]

\* The value of a constructor slot: what follows `member :`.
ValueOf(slot) == SubSeq(slot, 3, Len(slot))

\* The group opened at position p of toks is closed by its last token.
EnclosesRest(toks, p) == 
    LET opens == {q \in p..Len(toks) : toks[q] \in Opens}
        closes == {q \in p..(Len(toks) - 1) : toks[q] \in Closes}
    IN  /\ toks[p] \in Opens
        /\ toks[Len(toks)] \in Closes
        /\ \A c \in closes : Cardinality({q \in opens : q < c}) > Cardinality({q \in closes : q <= c})

Done == pc = "done"

VariantIndices == 1..Len(reflect_enum)

FieldIndices(i) == 1..Len(reflect_enum[i].fields)

FieldAt(i, j) == reflect_enum[i].fields[j]

\* The member and the alias a field is expected to get.
MemberOf(field) == IF field.ident = <<>> THEN ToString(field.declaration_index) ELSE field.ident[1]

AliasOf(field) == "_" \o MemberOf(field)

DefaultStrategies == {FromReflect, TryApply}

Malformed(field) == ~field.ignore /\ field.ident = <<>> /\ field.reflection_index = <<>>

\* Some field of the kind `Kind` has its constructor slot in the output.
SomeField(Kind(_, _, _)) == 
    \E i \in VariantIndices : \E j \in FieldIndices(i) : 
        /\ Len(variant_constructors) >= i
        /\ Len(Slots(variant_constructors[i])) >= j
        /\ Kind(reflect_enum[i].ident, FieldAt(i, j), ValueOf(Slots(variant_constructors[i])[j]))

\* Every constructor slot of the output satisfies `Holds`.
EveryField(Holds(_, _, _)) == 
    \A i \in VariantIndices : 
        /\ Len(variant_constructors) >= i
        /\ LET slots == Slots(variant_constructors[i])
           IN  \A j \in FieldIndices(i) : 
                 /\ Len(slots) >= j
                 /\ Holds(reflect_enum[i].ident, FieldAt(i, j), ValueOf(slots[j]))

(***************************************************************************)
(* C1: for every descriptor and each strategy, build returns               *)
(* variant_names, variant_patterns and variant_constructors of length      *)
(* variant_count, and entry i of each belongs to the i-th variant in       *)
(* declaration order (names[i] is that variant's identifier).              *)
(***************************************************************************)
C1_ParallelOutputs == 
    Done => /\ Len(variant_names) = Len(reflect_enum)
            /\ Len(variant_patterns) = Len(reflect_enum)
            /\ Len(variant_constructors) = Len(reflect_enum)
            /\ \A i \in VariantIndices : 
                 /\ variant_names[i] = reflect_enum[i].ident
                 /\ PathOf(variant_patterns[i]) = <<"Self", "::", reflect_enum[i].ident>>
                 /\ PathOf(variant_constructors[i]) = <<"Self", "::", reflect_enum[i].ident>>

C1_Witness == 
    /\ Done
    /\ Len(reflect_enum) = 2
    /\ Len(reflect_enum[1].fields) = 0
    /\ Len(reflect_enum[2].fields) = 2
    /\ variant_names = <<"Va", "Vb">>

(***************************************************************************)
(* C2: for every variant and strategy, the pattern and the constructor     *)
(* hold exactly one slot per field, in declaration order, active or        *)
(* ignored; the pattern slot binds the member (name, or declaration index  *)
(* when unnamed) to the alias _<member>; aliases are distinct within a     *)
(* variant.                                                                *)
(***************************************************************************)
C2_OneSlotPerField == 
    Done => \A i \in VariantIndices : 
              LET patterns == Slots(variant_patterns[i])
                  constructors == Slots(variant_constructors[i])
              IN  /\ Len(patterns) = Len(reflect_enum[i].fields)
                  /\ Len(constructors) = Len(reflect_enum[i].fields)
                  /\ \A j \in FieldIndices(i) : 
                       /\ patterns[j] = <<MemberOf(FieldAt(i, j)), ":", "_" \o MemberOf(FieldAt(i, j))>>
                       /\ Len(constructors[j]) > 2
                       /\ SubSeq(constructors[j], 1, 2) = <<MemberOf(FieldAt(i, j)), ":">>
                  /\ \A j, k \in FieldIndices(i) : j # k => patterns[j][3] # patterns[k][3]

C2_Witness == 
    /\ Done
    /\ \E i \in VariantIndices : 
         /\ Len(reflect_enum[i].fields) = 2
         /\ FieldAt(i, 1).ignore
         /\ ~FieldAt(i, 2).ignore
         /\ FieldAt(i, 1).ident = <<>>
         /\ Slots(variant_patterns[i]) = <<<<"0", ":", "_0">>, <<"1", ":", "_1">>>>

MissingEnumFieldOf(alias, variant_name, field_name) == 
    <<";", "let", alias, "=", alias, ".", "ok_or", "(", "bevy_reflect", "::", "ApplyError", "::", "MissingEnumField", "{",
      "variant_name", ":", "::core::convert::Into::into", "(", "\"" \o variant_name \o "\"", ")", ",",
      "field_name", ":", "::core::convert::Into::into", "(", "\"" \o field_name \o "\"", ")", "}", ")", "?", ";">>

C3_FieldIdentifier(field) == IF field.ident # <<>> THEN field.ident[1] ELSE "." \o ToString(field.declaration_index)

C3_Holds(variant_name, field, value) == 
    (~field.ignore /\ field.default = "Required") => 
        Contains(value, MissingEnumFieldOf(AliasOf(field), variant_name, C3_FieldIdentifier(field)))

(***************************************************************************)
(* C3: in Merge-Apply, the slot of an active required-no-default field     *)
(* binds the accessed value to the alias and then fails with               *)
(* MissingEnumField when it is absent, carrying the owning variant's name  *)
(* and the field identifier: the declared name, or ".N" with N the         *)
(* declaration index (not the reflection index) for an unnamed field.      *)
(***************************************************************************)
C3_MissingEnumField == (Done /\ strategy = TryApply) => EveryField(C3_Holds)

C3_Shifted(variant_name, field, value) == 
    /\ ~field.ignore
    /\ field.default = "Required"
    /\ field.ident = <<>>
    /\ field.reflection_index = <<0>>
    /\ field.declaration_index = 1
    /\ HasToken(value, "\".1\"")
    /\ HasToken(value, "0usize")

C3_Witness == Done /\ strategy = TryApply /\ SomeField(C3_Shifted)

MismatchedTypesOf(alias, ty) == 
    <<"<", ty, "as", "bevy_reflect", "::", "FromReflect", ">", "::", "from_reflect", "(", alias, ")",
      ".", "ok_or", "(", "bevy_reflect", "::", "ApplyError", "::", "MismatchedTypes", "{",
      "from_type", ":", "::core::convert::Into::into", "(", "bevy_reflect", "::", "DynamicTypePath", "::", "reflect_type_path", "(", alias, ")", ")", ",",
      "to_type", ":", "::core::convert::Into::into", "(", "<", ty, "as", "bevy_reflect", "::", "TypePath", ">", "::", "type_path", "(", ")", ")",
      "}", ")", "?">>

C4_Holds(variant_name, field, value) == 
    ~field.ignore => 
        IF field.default = "Required"
        THEN Contains(value, <<"?", ";">> \o MismatchedTypesOf(AliasOf(field), field.ty) \o <<"}">>)
        ELSE /\ Contains(value, <<"if", "let", "::core::option::Option", "::", "Some", "(", AliasOf(field), ")", "=">>)
             /\ Contains(value, <<"{">> \o MismatchedTypesOf(AliasOf(field), field.ty) \o <<"}", "else">>)

(***************************************************************************)
(* C4: in Merge-Apply, the slot of every active field, whatever its        *)
(* default policy, reconstructs the field's type from the value bound to   *)
(* the alias where that value is present, and fails with MismatchedTypes   *)
(* when the reconstruction yields nothing: from_type is the dynamic type   *)
(* path of the bound value, to_type the static type path of the field's    *)
(* reflected type.                                                         *)
(***************************************************************************)
C4_MismatchedTypes == (Done /\ strategy = TryApply) => EveryField(C4_Holds)

C4_Present(variant_name, field, value) == 
    /\ ~field.ignore
    /\ field.default = "Default"
    /\ HasToken(value, "MismatchedTypes")
    /\ HasToken(value, "reflect_type_path")

C4_Witness == Done /\ strategy = TryApply /\ SomeField(C4_Present)

FieldIdOf(field) == 
    IF field.ident # <<>>
    THEN <<"bevy_reflect", "::", "FieldId", "::", "Named", "(", "\"" \o field.ident[1] \o "\"", ")">>
    ELSE <<"bevy_reflect", "::", "FieldId", "::", "Unnamed", "(", ToString(field.declaration_index) \o "usize", ")">>

FieldNotCloneableOf(variant_name, field) == 
    <<"return", "::core::result::Result", "::", "Err", "(", "bevy_reflect", "::", "ReflectCloneError", "::", "FieldNotCloneable", "{", "field", ":">>
    \o FieldIdOf(field)
    \o <<",", "variant", ":", "::core::option::Option", "::", "Some", "(", "bevy_reflect", "::", "__macro_exports::alloc_utils::Cow::Borrowed", "(", "\"" \o variant_name \o "\"", ")", ")", ",",
         "container_type_path", ":", "bevy_reflect", "::", "__macro_exports::alloc_utils::Cow::Borrowed", "(", "<", "Self", "as", "bevy_reflect", "::", "TypePath", ">", "::", "type_path", "(", ")", ")",
         "}", ")">>

C5_Holds(variant_name, field, value) == 
    field.ignore => 
        CASE field.clone = "Default" -> value = FieldNotCloneableOf(variant_name, field)
          [] field.clone = "Trait" -> value = <<"::core::clone::Clone", "::", "clone", "(", AliasOf(field), ")">>
          [] field.clone = "Func" -> value = <<"clone_fn", "(", ")">>

(***************************************************************************)
(* C5: in Structural-Clone, the slot of an ignored field is decided by the *)
(* clone policy alone, whatever the default policy and remote setting:     *)
(* deep-reflect-clone is an immediate return of FieldNotCloneable with the *)
(* field identifier, the variant name and the container type path (never   *)
(* a default value); native-clone is the intrinsic clone of the alias; a   *)
(* custom function is a call of it with no argument.                       *)
(***************************************************************************)
C5_IgnoredClone == (Done /\ strategy = ReflectClone) => EveryField(C5_Holds)

C5_NotCloneable(variant_name, field, value) == 
    /\ field.ignore
    /\ field.clone = "Default"
    /\ field.default = "Func"
    /\ field.remote # <<>>
    /\ value[1] = "return"

C5_Witness == Done /\ strategy = ReflectClone /\ SomeField(C5_NotCloneable)

AsWrapperOf(field) == 
    <<"<", field.remote[1], "as", "bevy_reflect", "::", "ReflectRemote", ">", "::", "as_wrapper", "(", AliasOf(field), ")">>

C6_OriginalHolds(variant_name, field, value) == 
    ~field.ignore => 
        IF field.remote # <<>>
        THEN Contains(value, AsWrapperOf(field))
        ELSE ~HasToken(value, "as_wrapper")

(***************************************************************************)
(* C6 as stated: for each of the three strategies, construct_field of a    *)
(* field with a remote policy applies the remote unwrapping to the value   *)
(* bound to the alias, and of a field without one uses the alias directly. *)
(***************************************************************************)
C6_Original == Done => EveryField(C6_OriginalHolds)

C6_AmendedHolds(variant_name, field, value) == 
    ~field.ignore => 
        IF strategy = ReflectClone
        THEN IF field.remote # <<>>
             THEN Contains(value, <<"(">> \o AsWrapperOf(field) \o <<")">>) /\ Occurrences(value, AliasOf(field)) = 1
             ELSE ~HasToken(value, "as_wrapper") /\ Contains(value, <<"(", AliasOf(field), ")">>)
        ELSE ~HasToken(value, "as_wrapper") /\ Contains(value, <<"from_reflect", "(", AliasOf(field), ")">>)

(***************************************************************************)
(* C6 as amended: only in Structural-Clone does construct_field apply the  *)
(* remote unwrapping (as_wrapper) to the alias of a field with a remote    *)
(* policy, using the alias directly otherwise; in Reconstruction and       *)
(* Merge-Apply construct_field hands the alias itself to from_reflect of   *)
(* the reflected type, with or without a remote policy.                    *)
(***************************************************************************)
C6_RemoteUnwrapping == Done => EveryField(C6_AmendedHolds)

C6_RemoteActive(variant_name, field, value) == 
    /\ ~field.ignore
    /\ field.remote # <<>>
    /\ HasToken(value, "as_wrapper")

C6_Witness == Done /\ strategy = ReflectClone /\ SomeField(C6_RemoteActive)

\* The active-field result, inside the conversion of a remote field.
ResultOf(field, value) == IF field.remote # <<>> THEN SubSeq(value, 11, Len(value) - 1) ELSE value

IfPresentOf(field) == <<"if", "let", "::core::option::Option", "::", "Some", "(", AliasOf(field), ")", "=">>

FallbackOf(field) == IF field.default = "Func" THEN <<"default_fn", "(", ")">> ELSE <<"::core::default::Default", "::", "default", "(", ")">>

C7_Holds(variant_name, field, value) == 
    ~field.ignore => 
        LET f == [alias |-> AliasOf(field), variant_name |-> variant_name, field |-> field]
            accessed == access_field(strategy, this, f)
            unwrapped == unwrap_field(strategy, f)
            constructed == construct_field(strategy, f)
            result == ResultOf(field, value)
        IN  IF field.default = "Required"
            THEN result = <<"{", "let", f.alias, "=">> \o accessed \o <<";", "let", f.alias, "=">> \o unwrapped \o <<";">> \o constructed \o <<"}">>
            ELSE /\ result = IfPresentOf(field) \o accessed \o <<"{">> \o constructed \o <<"}", "else", "{">> \o FallbackOf(field) \o <<"}">>
                 /\ ~Contains(value, unwrapped)
                 /\ Occurrences(value, "from_reflect") = 1

(***************************************************************************)
(* C7: in Reconstruction and Merge-Apply the slot of an active field is    *)
(* shaped by its default policy.  Required-no-default: bind the accessed   *)
(* value to the alias, then unwrap_field, then construct_field.  Explicit  *)
(* function and trait default: construct_field where the accessed value is *)
(* present, otherwise the configured default function (resp. the trait     *)
(* default), with no unwrap_field fragment anywhere and no construct_field *)
(* fragment in the fallback branch.                                        *)
(***************************************************************************)
C7_DefaultPolicyShape == (Done /\ strategy \in DefaultStrategies) => EveryField(C7_Holds)

C7_RequiredField(variant_name, field, value) == 
    /\ ~field.ignore
    /\ field.default = "Required"
    /\ field.ident # <<>>
    /\ Contains(value, <<"let", AliasOf(field), "=", AliasOf(field), "?", ";">>)

C7_Witness == Done /\ strategy = FromReflect /\ SomeField(C7_RequiredField)

IntoRemoteOf(field) == <<"<", field.ty, "as", "bevy_reflect", "::", "ReflectRemote", ">", "::", "into_remote", "(">>

WrappedIntoRemote(field, value) == 
    /\ Len(value) > 11
    /\ SubSeq(value, 1, 10) = IntoRemoteOf(field)
    /\ EnclosesRest(value, 10)
    /\ Occurrences(value, "into_remote") = 1
    /\ IF field.default = "Required" THEN value[11] = "{" ELSE value[11] = "if" /\ HasToken(value, "else")

C8_WrapHolds(variant_name, field, value) == 
    ~field.ignore => 
        IF field.remote # <<>> THEN WrappedIntoRemote(field, value) ELSE ~HasToken(value, "into_remote")

(***************************************************************************)
(* C8 as stated: for every active field with a remote policy the slot is   *)
(* the entire active-field result wrapped in one conversion into the       *)
(* remote representation; for an active field without one no such          *)
(* conversion appears.                                                     *)
(***************************************************************************)
C8_Original == Done => EveryField(C8_WrapHolds)

C8_AmendedHolds(variant_name, field, value) == 
    ~field.ignore => 
        IF strategy = ReflectClone THEN ~HasToken(value, "into_remote") ELSE C8_WrapHolds(variant_name, field, value)

(***************************************************************************)
(* C8 as amended: in Reconstruction and Merge-Apply, for every active      *)
(* field with a remote policy the slot is the entire active-field result   *)
(* wrapped in one conversion into the remote representation, and for an    *)
(* active field without one no such conversion appears; in                 *)
(* Structural-Clone no active field's slot holds that conversion, with or  *)
(* without a remote policy.                                                *)
(***************************************************************************)
C8_IntoRemote == Done => EveryField(C8_AmendedHolds)

C8_RemoteWithFallback(variant_name, field, value) == 
    /\ ~field.ignore
    /\ field.remote # <<>>
    /\ field.default = "Func"
    /\ value[9] = "into_remote"
    /\ HasToken(value, "else")

C8_Witness == Done /\ strategy = TryApply /\ SomeField(C8_RemoteWithFallback)

StandInOf == <<"::core::compile_error", "!", "(", "\"internal bevy_reflect error: field should be active\"", ")">>

C9_Holds(variant_name, field, value) == 
    ~field.ignore => 
        IF field.ident # <<>>
        THEN /\ Contains(value, <<"=", this, ".", "field", "(", "\"" \o field.ident[1] \o "\"", ")">>)
             /\ ~HasToken(value, "field_at")
             /\ ~HasToken(value, "::core::compile_error")
        ELSE IF field.reflection_index # <<>>
             THEN /\ Contains(value, <<"=", this, ".", "field_at", "(", ToString(field.reflection_index[1]) \o "usize", ")">>)
                  /\ ~HasToken(value, "::core::compile_error")
             ELSE /\ Contains(value, <<"=">> \o StandInOf)
                  /\ ~HasToken(value, this)

WellFormed == \A i \in VariantIndices : \A j \in FieldIndices(i) : ~Malformed(FieldAt(i, j))

C9_MalformedField(variant_name, field, value) == 
    /\ Malformed(field)
    /\ HasToken(value, "::core::compile_error")

CloneInputOf(field) == IF field.remote # <<>> THEN AsWrapperOf(field) ELSE <<AliasOf(field)>>

C10_Holds(variant_name, field, value) == 
    ~field.ignore => 
        /\ CASE field.clone = "Default" -> 
                  value = <<"<", field.ty, "as", "bevy_reflect", "::", "PartialReflect", ">", "::", "reflect_clone_and_take", "(">> \o CloneInputOf(field) \o <<")", "?">>
             [] field.clone = "Trait" -> value = <<"::core::clone::Clone", "::", "clone", "(">> \o CloneInputOf(field) \o <<")">>
             [] field.clone = "Func" -> value = <<"clone_fn", "(">> \o CloneInputOf(field) \o <<")">>
        /\ ~HasToken(value, this)
        /\ ~HasToken(value, "unwrap")
        /\ ~HasToken(value, "default_fn")
        /\ ~HasToken(value, "::core::default::Default")
        /\ ~HasToken(value, "::core::compile_error")

(***************************************************************************)
(* C10: in Structural-Clone the slot of every active field is exactly the  *)
(* strategy's construct_field result for its clone policy, whatever its    *)
(* default policy: no dynamic lookup on the instance symbol, no            *)
(* unwrap_field fragment, no default value and no compile_error!, even     *)
(* for a field with neither a name nor a reflection index.                 *)
(***************************************************************************)
C10_CloneActive == (Done /\ strategy = ReflectClone) => EveryField(C10_Holds)

C10_MalformedWithDefault(variant_name, field, value) == 
    /\ Malformed(field)
    /\ field.default = "Func"
    /\ field.clone = "Default"
    /\ HasToken(value, "reflect_clone_and_take")

C10_Witness == Done /\ strategy = ReflectClone /\ SomeField(C10_MalformedWithDefault)

====
